---- MODULE Spec2Model ----
(***************************************************************************)
(* A model of the Go binding for Augeas (package augeas): the session      *)
(* handle, the flag word handed to aug_init, the translation of native     *)
(* return values into Go results and errors, and as much of the native     *)
(* tree, path-expression and last-error behaviour as the binding's doc     *)
(* comments describe and its operations depend on.                         *)
(***************************************************************************)
EXTENDS Integers, Sequences, FiniteSets, TLC

(***************************************************************************)
(* Bounds of the model.                                                    *)
(***************************************************************************)
\* The most nodes the caller's part of the tree may hold.
MaxNodes == 3

(***************************************************************************)
(* augeas.go: type Flag and its constants, "1 << iota" in declaration      *)
(* order starting with None at iota = 0.                                   *)
(***************************************************************************)
Pow2(n) == 2 ^ n

None == Pow2(0)
SaveBackup == Pow2(1)
SaveNewFile == Pow2(2)
TypeCheck == Pow2(3)
NoStdinc == Pow2(4)
SaveNoop == Pow2(5)
NoLoad == Pow2(6)
NoModlAutoload == Pow2(7)
EnableSpan == Pow2(8)
NoErrClose == Pow2(9)

\* The nine options, by name, and the Go constant of each.
Options ==
  {"SaveBackup", "SaveNewFile", "TypeCheck", "NoStdinc", "SaveNoop",
   "NoLoad", "NoModlAutoload", "EnableSpan", "NoErrClose"}

GoFlag(o) ==
  CASE o = "SaveBackup" -> SaveBackup
    [] o = "SaveNewFile" -> SaveNewFile
    [] o = "TypeCheck" -> TypeCheck
    [] o = "NoStdinc" -> NoStdinc
    [] o = "SaveNoop" -> SaveNoop
    [] o = "NoLoad" -> NoLoad
    [] o = "NoModlAutoload" -> NoModlAutoload
    [] o = "EnableSpan" -> EnableSpan
    [] o = "NoErrClose" -> NoErrClose

\* The bit of each option in enum aug_flags of <augeas.h>, which aug_init
\* decodes: AUG_NONE = 0, AUG_SAVE_BACKUP = 1 << 0, ..., AUG_NO_ERR_CLOSE =
\* 1 << 8.
NativeBit(o) ==
  CASE o = "SaveBackup" -> 0
    [] o = "SaveNewFile" -> 1
    [] o = "TypeCheck" -> 2
    [] o = "NoStdinc" -> 3
    [] o = "SaveNoop" -> 4
    [] o = "NoLoad" -> 5
    [] o = "NoModlAutoload" -> 6
    [] o = "EnableSpan" -> 7
    [] o = "NoErrClose" -> 8

\* Go's x & y and x | y on unsigned words.
RECURSIVE BitAnd(_, _)
BitAnd(x, y) ==
  IF x = 0 \/ y = 0 THEN 0
  ELSE (x % 2) * (y % 2) + 2 * BitAnd(x \div 2, y \div 2)

RECURSIVE BitOr(_, _)
BitOr(x, y) ==
  IF x = 0 THEN y
  ELSE IF y = 0 THEN x
  ELSE (IF x % 2 = 1 \/ y % 2 = 1 THEN 1 ELSE 0) + 2 * BitOr(x \div 2, y \div 2)

\* The conversion C.uint(flags): a Go uint cut to C's 32-bit unsigned, the
\* low and the high 16 bits taken apart.
CUint(x) == (x % Pow2(16)) + Pow2(16) * ((x \div Pow2(16)) % Pow2(16))

\* The caller's flags argument for a set S of options: the constants or'ed
\* together, on top of None when the caller starts from None (as the README's
\* example does).
RECURSIVE OrAll(_, _)
OrAll(S, acc) ==
  IF S = {} THEN acc
  ELSE LET o == CHOOSE x \in S : TRUE IN OrAll(S \ {o}, BitOr(acc, GoFlag(o)))

FlagWord(S, withNone) == OrAll(S, IF withNone THEN None ELSE 0)

\* The options aug_init sees enabled in a flag word.
NativeEnabled(w) == {o \in Options : BitAnd(w, Pow2(NativeBit(o))) > 0}

(***************************************************************************)
(* error.go: type ErrorCode and its constants.  The constants after        *)
(* "NoError = 0" carry no expression of their own, so each repeats the     *)
(* last one: "= 0".                                                        *)
(***************************************************************************)
CouldNotInitialize == -2
NoMatch == -1
NoError == 0
ENOMEM == 0
EINTERNAL == 0
EPATHX == 0
ENOMATCH == 0
EMMATCH == 0
ESYNTAX == 0
ENOLENS == 0
EMXFM == 0
ENOSPAN == 0
EMVDESC == 0
ECMDRUN == 0
EBADARG == 0

\* The codes aug_error returns (aug_errcode_t of <augeas.h>), in the order
\* error.go lists them.
AUG_NOERROR == 0
AUG_ENOMEM == 1
AUG_EINTERNAL == 2
AUG_EPATHX == 3
AUG_ENOMATCH == 4
AUG_EMMATCH == 5
AUG_ESYNTAX == 6
AUG_ENOLENS == 7
AUG_EMXFM == 8
AUG_ENOSPAN == 9
AUG_EMVDESC == 10
AUG_ECMDRUN == 11
AUG_EBADARG == 12

\* The session's last-error state as the four aug_error* calls report it.
NativeErr(code) ==
  [code |-> code,
   message |->
     CASE code = AUG_NOERROR -> "No error"
       [] code = AUG_ENOMEM -> "Cannot allocate memory"
       [] code = AUG_EPATHX -> "Invalid path expression"
       [] code = AUG_EMMATCH -> "Too many matches for path expression"
       [] code = AUG_ESYNTAX -> "Syntax error in lens definition"
       [] code = AUG_EMVDESC -> "Cannot move node into its descendant"
       [] OTHER -> "error",
   minor |-> IF code = AUG_EPATHX THEN "illegal string literal" ELSE "",
   details |-> IF code = AUG_EPATHX THEN "/a[|=|" ELSE ""]

\* A Go error value: nil, or one Error.
Nil == <<>>
Error(code, message, minor, details) ==
  <<[Code |-> code, Message |-> message, MinorMessage |-> minor,
     Details |-> details]>>

(***************************************************************************)
(* The native tree.  The root's children are a sequence of nodes, each     *)
(* with a label, a value (or none) and a sequence of children; siblings    *)
(* are ordered and may repeat a label.  The model keeps two levels below   *)
(* the root.  A node is named by its position: <<i>> is the root's i-th    *)
(* child and <<i, j>> that child's j-th child.                             *)
(***************************************************************************)
\* A char* that is NULL: a node without a value, an argument not passed.
Null == "<NULL>"

\* C.GoString: the Go string of a char*, empty for NULL.
GoString(c) == IF c = Null THEN "" ELSE c

Labels == {"a", "b"}
Vals == {"v", "w"}
VarNames == {"x", "y"}

VersionValue == "1.12.0"

\* The tree aug_init leaves for an empty file system root: /augeas/version.
InitTree ==
  <<[label |-> "augeas", value |-> Null,
     kids |-> <<[label |-> "version", value |-> VersionValue]>>]>>

Root == <<>>

Kids(t, pos) ==
  IF pos = Root THEN t
  ELSE IF Len(pos) = 1 THEN t[pos[1]].kids
  ELSE <<>>

NodeAt(t, pos) ==
  IF Len(pos) = 1 THEN t[pos[1]] ELSE t[pos[1]].kids[pos[2]]

RECURSIVE SumKids(_, _)
SumKids(t, i) == IF i = 0 THEN 0 ELSE Len(t[i].kids) + SumKids(t, i - 1)

NodeCount(t) == Len(t) + SumKids(t, Len(t))

SetValue(t, pos, v) ==
  IF Len(pos) = 1 THEN [t EXCEPT ![pos[1]].value = v]
  ELSE [t EXCEPT ![pos[1]].kids[pos[2]].value = v]

\* A new last child of the node at pos, itself with the children ks.
AddChild(t, pos, label, value, ks) ==
  IF pos = Root THEN Append(t, [label |-> label, value |-> value, kids |-> ks])
  ELSE [t EXCEPT ![pos[1]].kids = Append(@, [label |-> label, value |-> value])]

(***************************************************************************)
(* Path expressions (the doc comment of Match): segments separated by '/', *)
(* each a '*' or a label, optionally followed by [N] or [last()]; a path   *)
(* may start with a variable, $name.  A path is a record: the variable     *)
(* ("" for none), the segments, and whether the text is malformed.         *)
(***************************************************************************)
Star == "*"
Last == -1

Seg(name, idx) == [name |-> name, idx |-> idx]
Path(var, segs) == [var |-> var, segs |-> segs, bad |-> FALSE]
\* A text that is no path expression, such as "/a[".
BadPath == [var |-> "", segs |-> <<>>, bad |-> TRUE]

RECURSIVE Flatten(_)
Flatten(ss) == IF ss = <<>> THEN <<>> ELSE Head(ss) \o Flatten(Tail(ss))

\* The children of the node at pos that a segment selects, in sibling order.
StepFrom(t, pos, seg) ==
  LET ks == Kids(t, pos)
      all == SelectSeq([j \in 1..Len(ks) |-> j],
                       LAMBDA j : seg.name = Star \/ ks[j].label = seg.name)
      sel == IF seg.idx = 0 THEN all
             ELSE IF seg.idx = Last
               THEN (IF all = <<>> THEN <<>> ELSE <<all[Len(all)]>>)
             ELSE IF seg.idx <= Len(all) THEN <<all[seg.idx]>>
             ELSE <<>>
  IN [k \in 1..Len(sel) |-> Append(pos, sel[k])]

Step(t, nodes, seg) ==
  Flatten([k \in 1..Len(nodes) |-> StepFrom(t, nodes[k], seg)])

RECURSIVE Walk(_, _, _)
Walk(t, nodes, segs) ==
  IF segs = <<>> THEN nodes
  ELSE Walk(t, Step(t, nodes, Head(segs)), Tail(segs))

\* A variable is unbound, <<>>, or bound to the nodes its expression
\* matched when it was defined, <<nodes>>.
Unbound == <<>>

\* The evaluation of a path: an error code and the matching nodes in order.
Eval(t, vs, p) ==
  IF p.bad THEN [code |-> AUG_EPATHX, nodes |-> <<>>]
  ELSE IF p.var # "" /\ vs[p.var] = Unbound
    THEN [code |-> AUG_EPATHX, nodes |-> <<>>]
  ELSE LET start == IF p.var = "" THEN <<Root>>
                    ELSE vs[p.var][1]
       IN [code |-> AUG_NOERROR, nodes |-> Walk(t, start, p.segs)]

\* The path aug_match reports for a node: its labels from the root, each
\* with its index among the siblings of that label when there are several.
SegOf(t, pos) ==
  LET parent == SubSeq(pos, 1, Len(pos) - 1)
      ks == Kids(t, parent)
      me == pos[Len(pos)]
      same == {j \in 1..Len(ks) : ks[j].label = ks[me].label}
  IN Seg(ks[me].label,
         IF Cardinality(same) > 1
           THEN Cardinality({j \in same : j <= me}) ELSE 0)

PathOf(t, pos) ==
  Path("", [k \in 1..Len(pos) |-> SegOf(t, SubSeq(pos, 1, k))])

(***************************************************************************)
(* The state: one session value (an Augeas struct and the native handle    *)
(* it holds), the native tree, variables and last-error state behind the   *)
(* handle, and the last call with what it returned.                        *)
(***************************************************************************)
VARIABLES
  handle,    \* "none": New not yet called; "live"; "failed": a handle whose
             \* initialization failed; "nil": no handle; "freed": closed
  tree,      \* the native tree
  bindings,  \* the native variables: name -> Unbound or <<expression>>
  nerr,      \* the native last-error state
  res        \* the last call of the binding: its name, arguments, results

vars == <<handle, tree, bindings, nerr, res>>

\* What a call on a handle that is NULL or freed may do: the Go code checks
\* nothing and the native library dereferences the handle.
UBOutcomes == {"crash", "garbage"}

(***************************************************************************)
(* error.go: Augeas.error, errorCode, errorMessage, errorMinorMessage,     *)
(* errorDetails.  Each reads the native state; none writes it.             *)
(***************************************************************************)
errorCode(e) == e.code
errorMessage(e) == e.message
errorMinorMessage(e) == e.minor
errorDetails(e) == e.details

GoError(e) ==
  LET code == errorCode(e)
  IN IF code = NoError THEN Nil
     ELSE Error(code, errorMessage(e), errorMinorMessage(e), errorDetails(e))

(***************************************************************************)
(* augeas.go: New.                                                         *)
(***************************************************************************)
\* aug_init: a handle, or on failure NULL after closing it, unless the flag
\* word has AUG_NO_ERR_CLOSE, and then the handle with the error recorded.
NativeInit(w, ok, code) ==
  IF ok THEN [handle |-> "live", tree |-> InitTree, err |-> NativeErr(AUG_NOERROR)]
  ELSE IF "NoErrClose" \in NativeEnabled(w)
    THEN [handle |-> "failed", tree |-> <<>>, err |-> NativeErr(code)]
  ELSE [handle |-> "nil", tree |-> <<>>, err |-> NativeErr(AUG_NOERROR)]

\* What New returns for the caller's flags and aug_init's result: the
\* session's handle, the error, and whether New called error() on no handle.
GoNew(flags, nat) ==
  IF BitAnd(flags, NoErrClose) > 0
    THEN [handle |-> nat.handle,
          err |-> IF nat.handle = "nil" THEN Nil ELSE GoError(nat.err),
          ub |-> nat.handle = "nil"]
  ELSE IF nat.handle = "nil"
    THEN [handle |-> "nil",
          err |-> Error(CouldNotInitialize, "Could not initialize Augeas tree", "", ""),
          ub |-> FALSE]
  ELSE [handle |-> nat.handle, err |-> Nil, ub |-> FALSE]

NewReturns(S, withNone, flags, nat, go, outcome) ==
  /\ handle' = go.handle
  /\ tree' = nat.tree
  /\ nerr' = nat.err
  /\ res' = [op |-> "New", S |-> S, withNone |-> withNone, flags |-> flags,
             word |-> CUint(flags), native |-> nat.handle, err |-> go.err,
             ub |-> IF go.ub THEN outcome ELSE "no"]

NewCalls(S, withNone, flags, nat, outcome) ==
  NewReturns(S, withNone, flags, nat, GoNew(flags, nat), outcome)

NewWith(S, withNone, flags, ok, code, outcome) ==
  NewCalls(S, withNone, flags, NativeInit(CUint(flags), ok, code), outcome)

New(S, withNone, ok, code, outcome) ==
  /\ handle = "none"
  /\ NewWith(S, withNone, FlagWord(S, withNone), ok, code, outcome)
  /\ UNCHANGED bindings

(***************************************************************************)
(* augeas.go: Close.  aug_close frees the handle; the Augeas value keeps   *)
(* the pointer.                                                            *)
(***************************************************************************)
Close ==
  /\ handle \in {"live", "failed"}
  /\ handle' = "freed"
  /\ tree' = <<>>
  /\ bindings' = [n \in VarNames |-> Unbound]
  /\ nerr' = NativeErr(AUG_NOERROR)
  /\ res' = [op |-> "Close", ub |-> "no"]

\* The public operations.
OpNames ==
  {"Get", "Label", "Match", "GetAll", "Set", "SetMultiple", "Remove", "Move",
   "DefineVariable", "RemoveVariable", "Save", "Version", "Close"}

\* Any operation on a session whose handle is NULL or freed: the handle is
\* passed to the native call unchecked.
UseInvalid(op, outcome) ==
  /\ handle \in {"nil", "freed"}
  /\ res' = [op |-> op, ub |-> outcome]
  /\ UNCHANGED <<handle, tree, bindings, nerr>>

(***************************************************************************)
(* error.go: a read of the session's error state, as every failing         *)
(* operation performs it.                                                  *)
(***************************************************************************)
\* A read that resets the error state it has read.
ReadErrorClearing ==
  /\ handle \in {"live", "failed"}
  /\ res' = [op |-> "error", err |-> GoError(nerr), ub |-> "no",
             prev |-> IF res.op = "error" THEN <<res.err>> ELSE <<>>]
  /\ nerr' = NativeErr(AUG_NOERROR)
  /\ UNCHANGED <<handle, tree, bindings>>

ReadError ==
  /\ handle \in {"live", "failed"}
  /\ res' = [op |-> "error", err |-> GoError(nerr), ub |-> "no",
             prev |-> IF res.op = "error" THEN <<res.err>> ELSE <<>>]
  /\ UNCHANGED <<handle, tree, bindings, nerr>>

(***************************************************************************)
(* Arguments.  A Go string that holds a path is the path's record; the     *)
(* empty string is the path with no text.  A char* argument is NULL,       *)
(* <<>>, or points to the text, <<p>>.                                     *)
(***************************************************************************)
EmptyText == Path("", <<>>)
NullPtr == <<>>
CString(s) == <<s>>

PA == Path("", <<Seg("a", 0)>>)
PA1 == Path("", <<Seg("a", 1)>>)
PA2 == Path("", <<Seg("a", 2)>>)
PALast == Path("", <<Seg("a", Last)>>)
PB == Path("", <<Seg("b", 0)>>)
PAB == Path("", <<Seg("a", 0), Seg("b", 0)>>)
PStar == Path("", <<Seg(Star, 0)>>)
PXB == Path("x", <<Seg("b", 0)>>)
PYB == Path("y", <<Seg("b", 0)>>)
SubB == Path("", <<Seg("b", 0)>>)
VersionPath == Path("", <<Seg("augeas", 0), Seg("version", 0)>>)

(***************************************************************************)
(* augeas.go: Get and Label.                                               *)
(***************************************************************************)
\* aug_get and aug_label: 1 and the value (label) of the one matching node,
\* 0 for no match, negative for several matches, a path that is no legal
\* expression, or a failed allocation.
NativeFind(t, vs, p, oom) ==
  LET e == Eval(t, vs, p)
  IN IF oom THEN [ret |-> -1, code |-> AUG_ENOMEM, nodes |-> <<>>]
     ELSE IF e.code # AUG_NOERROR THEN [ret |-> -1, code |-> e.code, nodes |-> <<>>]
     ELSE IF Len(e.nodes) = 1 THEN [ret |-> 1, code |-> AUG_NOERROR, nodes |-> e.nodes]
     ELSE IF Len(e.nodes) = 0 THEN [ret |-> 0, code |-> AUG_NOERROR, nodes |-> <<>>]
     ELSE [ret |-> -1, code |-> AUG_EMMATCH, nodes |-> <<>>]

NativeGet(t, vs, p, oom) ==
  LET f == NativeFind(t, vs, p, oom)
  IN [ret |-> f.ret, code |-> f.code,
      value |-> IF f.ret = 1 THEN NodeAt(t, f.nodes[1]).value ELSE Null]

NativeLabel(t, vs, p, oom) ==
  LET f == NativeFind(t, vs, p, oom)
  IN [ret |-> f.ret, code |-> f.code,
      value |-> IF f.ret = 1 THEN NodeAt(t, f.nodes[1]).label ELSE Null]

\* The Go side of Get and of Label: the branches on the native return value.
\* GoGet with the zero return value handled like the negative ones, through
\* error(): a slip the outcome classes of Get must tell from GoGet.
GoGetZeroViaError(nat) ==
  IF nat.ret = 1
    THEN [value |-> GoString(nat.value), err |-> Nil, panic |-> FALSE,
          code |-> nat.code]
  ELSE [value |-> "", err |-> GoError(NativeErr(nat.code)), panic |-> FALSE,
        code |-> nat.code]

\* code is the native error state the call left.
GoGet(nat) ==
  IF nat.ret = 1
    THEN [value |-> GoString(nat.value), err |-> Nil, panic |-> FALSE,
          code |-> nat.code]
  ELSE IF nat.ret = 0
    THEN [value |-> "", err |-> Error(NoMatch, "No matching node", "", ""),
          panic |-> FALSE, code |-> nat.code]
  ELSE IF nat.ret < 0
    THEN [value |-> "", err |-> GoError(NativeErr(nat.code)), panic |-> FALSE,
          code |-> nat.code]
  ELSE [value |-> "", err |-> Nil, panic |-> TRUE, code |-> nat.code]

GetReturns(op, p, oom, go) ==
  /\ nerr' = NativeErr(go.code)
  /\ res' = [op |-> op, path |-> p, oom |-> oom, value |-> go.value,
             err |-> go.err, panic |-> go.panic, ub |-> "no"]

Get(p, oom) ==
  /\ handle = "live"
  /\ GetReturns("Get", p, oom, GoGet(NativeGet(tree, bindings, p, oom)))
  /\ UNCHANGED <<handle, tree, bindings>>

Label(p, oom) ==
  /\ handle = "live"
  /\ GetReturns("Label", p, oom, GoGet(NativeLabel(tree, bindings, p, oom)))
  /\ UNCHANGED <<handle, tree, bindings>>

(***************************************************************************)
(* augeas.go: Version.                                                     *)
(***************************************************************************)
\* "val, _ := a.Get(...)": the value is returned and the error dropped.
GoVersion(go) == go.value

VersionReturns(go) ==
  /\ nerr' = NativeErr(go.code)
  /\ res' = [op |-> "Version", value |-> GoVersion(go), failed |-> go.err # Nil,
             ub |-> "no"]

Version(oom) ==
  /\ handle = "live"
  /\ VersionReturns(GoGet(NativeGet(tree, bindings, VersionPath, oom)))
  /\ UNCHANGED <<handle, tree, bindings>>

(***************************************************************************)
(* augeas.go: Match and GetAll.                                            *)
(***************************************************************************)
\* aug_match: the number of matches and their paths, or -1.
NativeMatch(t, vs, p) ==
  LET e == Eval(t, vs, p)
  IN IF e.code # AUG_NOERROR THEN [ret |-> -1, code |-> e.code, matches |-> <<>>]
     ELSE [ret |-> Len(e.nodes), code |-> AUG_NOERROR,
           matches |-> [k \in 1..Len(e.nodes) |-> PathOf(t, e.nodes[k])]]

\* The Go side of Match: the copy loop over the num returned strings.
GoMatch(nat) ==
  IF nat.ret < 0
    THEN [matches |-> <<>>, err |-> GoError(NativeErr(nat.code)),
          code |-> nat.code]
  ELSE [matches |-> [i \in 1..nat.ret |-> nat.matches[i]], err |-> Nil,
        code |-> nat.code]

MatchReturns(p, go) ==
  /\ nerr' = NativeErr(go.code)
  /\ res' = [op |-> "Match", path |-> p, matches |-> go.matches,
             err |-> go.err, ub |-> "no"]

Match(p) ==
  /\ handle = "live"
  /\ MatchReturns(p, GoMatch(NativeMatch(tree, bindings, p)))
  /\ UNCHANGED <<handle, tree, bindings>>

\* The loop of GetAll with "continue" for "return" on a failed get: the
\* failing path is skipped and the later paths are still read.
GetAllLoopKeepsGoing(t, vs, paths, failAt) ==
  LET Loop[i \in 0..Len(paths)] ==
        IF i = 0
          THEN [values |-> <<>>, err |-> Nil, gets |-> 0, code |-> AUG_NOERROR]
        ELSE LET nat == NativeGet(t, vs, paths[i], failAt = i)
                 go == GoGet(nat)
             IN IF go.err # Nil
                  THEN [values |-> Loop[i - 1].values, err |-> go.err,
                        gets |-> i, code |-> nat.code]
                ELSE [values |-> Append(Loop[i - 1].values, go.value),
                      err |-> Loop[i - 1].err, gets |-> i, code |-> nat.code]
  IN Loop[Len(paths)]

\* The loop of GetAll over the matched paths: Loop[i] is the loop's state
\* after i paths, a state with an error being the one the loop returned in.
\* gets counts the native gets made.  The failAt-th get (0: none) fails for
\* want of memory.
GetAllLoop(t, vs, paths, failAt) ==
  LET Loop[i \in 0..Len(paths)] ==
        IF i = 0
          THEN [values |-> <<>>, err |-> Nil, gets |-> 0, code |-> AUG_NOERROR]
        ELSE IF Loop[i - 1].err # Nil THEN Loop[i - 1]
        ELSE LET nat == NativeGet(t, vs, paths[i], failAt = i)
                 go == GoGet(nat)
             IN IF go.err # Nil
                  THEN [values |-> Loop[i - 1].values, err |-> go.err,
                        gets |-> i, code |-> nat.code]
                ELSE [values |-> Append(Loop[i - 1].values, go.value),
                      err |-> Nil, gets |-> i, code |-> nat.code]
  IN Loop[Len(paths)]

GoGetAll(t, vs, m, failAt) ==
  IF m.err # Nil
    THEN [values |-> <<>>, err |-> m.err, gets |-> 0, code |-> m.code]
  ELSE GetAllLoop(t, vs, m.matches, failAt)

GetAllReturns(p, failAt, m, go) ==
  /\ nerr' = NativeErr(go.code)
  /\ res' = [op |-> "GetAll", path |-> p, failAt |-> failAt,
             matches |-> m.matches, matchErr |-> m.err, values |-> go.values,
             err |-> go.err, gets |-> go.gets, ub |-> "no"]

GetAllMatched(p, failAt, m) ==
  GetAllReturns(p, failAt, m, GoGetAll(tree, bindings, m, failAt))

GetAll(p, failAt) ==
  /\ handle = "live"
  /\ GetAllMatched(p, failAt, GoMatch(NativeMatch(tree, bindings, p)))
  /\ UNCHANGED <<handle, tree, bindings>>

(***************************************************************************)
(* augeas.go: Set.  "Intermediate entries are created if they don't        *)
(* exist."  The model calls it with paths of plain labels, no variable.    *)
(***************************************************************************)
\* The longest prefix of the segments that matches something.
RECURSIVE MatchedPrefix(_, _, _)
MatchedPrefix(t, segs, k) ==
  IF k = 0 \/ Walk(t, <<Root>>, SubSeq(segs, 1, k)) # <<>> THEN k
  ELSE MatchedPrefix(t, segs, k - 1)

\* The tree with the nodes of segs[k+1..] created below the node at pos,
\* the last of them with the value v.
CreateBelow(t, pos, segs, k, v) ==
  IF Len(segs) - k = 1 THEN AddChild(t, pos, segs[k + 1].name, v, <<>>)
  ELSE AddChild(t, pos, segs[k + 1].name, Null,
                <<[label |-> segs[k + 2].name, value |-> v]>>)

\* aug_set: 0, or -1 for an illegal path or several matches.
NativeSet(t, vs, p, v) ==
  LET e == Eval(t, vs, p)
      k == MatchedPrefix(t, p.segs, Len(p.segs))
      at == Walk(t, <<Root>>, SubSeq(p.segs, 1, k))
  IN IF e.code # AUG_NOERROR THEN [ret |-> -1, code |-> e.code, tree |-> t]
     ELSE IF Len(e.nodes) = 1
       THEN [ret |-> 0, code |-> AUG_NOERROR, tree |-> SetValue(t, e.nodes[1], v)]
     ELSE IF Len(e.nodes) > 1 \/ Len(at) > 1
       THEN [ret |-> -1, code |-> AUG_EMMATCH, tree |-> t]
     ELSE [ret |-> 0, code |-> AUG_NOERROR,
           tree |-> CreateBelow(t, at[1], p.segs, k, v)]

\* The Go side of the operations that return only an error.
GoStatus(ret, e) == IF ret = -1 THEN GoError(e) ELSE Nil

\* The tree has room for what a call created.
Fits(t) == NodeCount(t) <= MaxNodes + NodeCount(InitTree)

SetReturns(p, v, nat) ==
  /\ Fits(nat.tree)
  /\ tree' = nat.tree
  /\ nerr' = NativeErr(nat.code)
  /\ res' = [op |-> "Set", path |-> p, value |-> v,
             err |-> GoStatus(nat.ret, NativeErr(nat.code)), ub |-> "no"]

Set(p, v) ==
  /\ handle = "live"
  /\ SetReturns(p, v, NativeSet(tree, bindings, p, v))
  /\ UNCHANGED <<handle, bindings>>

(***************************************************************************)
(* augeas.go: Insert.  The path must match exactly one node; a new sibling *)
(* without a value is created just before or just after it.                *)
(***************************************************************************)
InsertSeq(s, i, x) == SubSeq(s, 1, i - 1) \o <<x>> \o SubSeq(s, i, Len(s))

NativeInsert(t, vs, p, label, before) ==
  LET e == Eval(t, vs, p)
      pos == e.nodes[1]
      at == IF before THEN pos[Len(pos)] ELSE pos[Len(pos)] + 1
  IN IF e.code # AUG_NOERROR THEN [ret |-> -1, code |-> e.code, tree |-> t]
     ELSE IF Len(e.nodes) = 0 THEN [ret |-> -1, code |-> AUG_ENOMATCH, tree |-> t]
     ELSE IF Len(e.nodes) > 1 THEN [ret |-> -1, code |-> AUG_EMMATCH, tree |-> t]
     ELSE [ret |-> 0, code |-> AUG_NOERROR,
           tree |-> IF Len(pos) = 1
                      THEN InsertSeq(t, at, [label |-> label, value |-> Null,
                                             kids |-> <<>>])
                    ELSE [t EXCEPT ![pos[1]].kids =
                            InsertSeq(@, at, [label |-> label, value |-> Null])]]

InsertReturns(p, nat) ==
  /\ Fits(nat.tree)
  /\ tree' = nat.tree
  /\ nerr' = NativeErr(nat.code)
  /\ res' = [op |-> "Insert", path |-> p,
             err |-> GoStatus(nat.ret, NativeErr(nat.code)), ub |-> "no"]

Insert(p, label, before) ==
  /\ handle = "live"
  /\ InsertReturns(p, NativeInsert(tree, bindings, p, label, before))
  /\ UNCHANGED <<handle, bindings>>

(***************************************************************************)
(* augeas.go: SetMultiple.                                                 *)
(***************************************************************************)
\* aug_setm over the nodes matching base, from the i-th on: with sub NULL
\* the node itself is assigned; otherwise every node matching sub below it,
\* or a new node for sub when there is none.
RECURSIVE SetmLoop(_, _, _, _, _, _)
SetmLoop(t, nodes, i, sub, v, n) ==
  IF i > Len(nodes) THEN [tree |-> t, count |-> n]
  ELSE IF sub = NullPtr
    THEN SetmLoop(SetValue(t, nodes[i], v), nodes, i + 1, sub, v, n + 1)
  ELSE LET below == Walk(t, <<nodes[i]>>, sub[1].segs)
           AssignAll[j \in 0..Len(below)] ==
             IF j = 0 THEN t ELSE SetValue(AssignAll[j - 1], below[j], v)
       IN IF below # <<>>
            THEN SetmLoop(AssignAll[Len(below)], nodes, i + 1, sub, v,
                          n + Len(below))
          ELSE SetmLoop(AddChild(t, nodes[i], sub[1].segs[1].name, v, <<>>),
                        nodes, i + 1, sub, v, n + 1)

NativeSetm(t, vs, base, sub, v) ==
  LET e == Eval(t, vs, base)
      done == SetmLoop(t, e.nodes, 1, sub, v, 0)
  IN IF e.code # AUG_NOERROR THEN [ret |-> -1, code |-> e.code, tree |-> t]
     ELSE [ret |-> done.count, code |-> AUG_NOERROR, tree |-> done.tree]

\* The sub argument SetMultiple passes to aug_setm.  The function declares
\* cSub as a nil pointer; the CString made when sub is not empty is assigned
\* to a second cSub, declared by ":=" inside the if block, which the call
\* after the block does not see.
GoSetMultipleSub(sub) ==
  LET outer == NullPtr
      inner == IF sub # EmptyText THEN CString(sub) ELSE NullPtr
  IN outer

\* The Go side of the operations that return a count and an error.
GoCount(ret, e) ==
  IF ret = -1 THEN [num |-> 0, err |-> GoError(e)]
  ELSE [num |-> ret, err |-> Nil]

SetMultipleReturns(base, sub, v, nat) ==
  /\ Fits(nat.tree)
  /\ tree' = nat.tree
  /\ nerr' = NativeErr(nat.code)
  /\ res' = [op |-> "SetMultiple", base |-> base, sub |-> sub, value |-> v,
             num |-> GoCount(nat.ret, NativeErr(nat.code)).num,
             err |-> GoCount(nat.ret, NativeErr(nat.code)).err, ub |-> "no"]

SetMultiple(base, sub, v) ==
  /\ handle = "live"
  /\ SetMultipleReturns(base, sub, v,
        NativeSetm(tree, bindings, base, GoSetMultipleSub(sub), v))
  /\ UNCHANGED <<handle, bindings>>

(***************************************************************************)
(* augeas.go: Remove.                                                      *)
(***************************************************************************)
Indices(s) == [j \in 1..Len(s) |-> j]

\* The tree without the nodes at the positions of P and their descendants.
RemoveNodes(t, P) ==
  LET keepTop == SelectSeq(Indices(t), LAMBDA i : <<i>> \notin P)
      KeepKids(i) == SelectSeq(Indices(t[i].kids), LAMBDA j : <<i, j>> \notin P)
  IN [k \in 1..Len(keepTop) |->
        LET i == keepTop[k]
        IN [t[i] EXCEPT !.kids = [m \in 1..Len(KeepKids(i)) |->
                                    t[i].kids[KeepKids(i)[m]]]]]

\* aug_rm: the number of nodes removed, or -1.
NativeRm(t, vs, p) ==
  LET e == Eval(t, vs, p)
      P == {e.nodes[k] : k \in 1..Len(e.nodes)}
      after == RemoveNodes(t, P)
  IN IF e.code # AUG_NOERROR THEN [ret |-> -1, code |-> e.code, tree |-> t]
     ELSE [ret |-> NodeCount(t) - NodeCount(after), code |-> AUG_NOERROR,
           tree |-> after]

\* Remove returns the native count converted to int, and nothing else.
GoRemove(ret) == ret

RemoveReturns(p, nat) ==
  /\ tree' = nat.tree
  /\ nerr' = NativeErr(nat.code)
  /\ res' = [op |-> "Remove", path |-> p, num |-> GoRemove(nat.ret),
             failed |-> nat.ret = -1, ub |-> "no"]

Remove(p) ==
  /\ handle = "live"
  /\ RemoveReturns(p, NativeRm(tree, bindings, p))
  /\ UNCHANGED <<handle, bindings>>

(***************************************************************************)
(* augeas.go: Move.  src must match exactly one node; dst matches exactly  *)
(* one node, which src replaces, or none, and is then created; src may not *)
(* be moved into its own descendant.                                       *)
(***************************************************************************)
IsPrefix(a, b) == Len(a) <= Len(b) /\ SubSeq(b, 1, Len(a)) = a

NativeMv(t, vs, src, dst) ==
  LET es == Eval(t, vs, src)
      ed == Eval(t, vs, dst)
      spos == es.nodes[1]
      k == MatchedPrefix(t, dst.segs, Len(dst.segs))
      at == Walk(t, <<Root>>, SubSeq(dst.segs, 1, k))
      made == IF Len(ed.nodes) = 1 THEN t
              ELSE CreateBelow(t, at[1], dst.segs, k, Null)
      dpos == Eval(made, vs, dst).nodes[1]
      from == NodeAt(t, spos)
      put == IF Len(dpos) = 1
               THEN [made EXCEPT ![dpos[1]].value = from.value,
                                 ![dpos[1]].kids =
                                   IF Len(spos) = 1 THEN from.kids ELSE <<>>]
             ELSE SetValue(made, dpos, from.value)
      Fail(code) == [ret |-> -1, code |-> code, tree |-> t]
  IN IF es.code # AUG_NOERROR THEN Fail(es.code)
     ELSE IF Len(es.nodes) = 0 THEN Fail(AUG_ENOMATCH)
     ELSE IF Len(es.nodes) > 1 THEN Fail(AUG_EMMATCH)
     ELSE IF ed.code # AUG_NOERROR THEN Fail(ed.code)
     ELSE IF Len(ed.nodes) > 1 \/ Len(at) > 1 THEN Fail(AUG_EMMATCH)
     ELSE IF IsPrefix(spos, IF Len(ed.nodes) = 1 THEN ed.nodes[1] ELSE at[1])
            /\ (Len(ed.nodes) = 1 \/ at[1] # Root)
       THEN Fail(AUG_EMVDESC)
     ELSE [ret |-> 0, code |-> AUG_NOERROR, tree |-> RemoveNodes(put, {spos})]

MoveReturns(src, dst, nat) ==
  /\ Fits(nat.tree)
  /\ tree' = nat.tree
  /\ nerr' = NativeErr(nat.code)
  /\ res' = [op |-> "Move", src |-> src, dst |-> dst,
             intoDescendant |-> nat.code = AUG_EMVDESC,
             err |-> GoStatus(nat.ret, NativeErr(nat.code)), ub |-> "no"]

Move(src, dst) ==
  /\ handle = "live"
  /\ MoveReturns(src, dst, NativeMv(tree, bindings, src, dst))
  /\ UNCHANGED <<handle, bindings>>

(***************************************************************************)
(* augeas.go: DefineVariable and RemoveVariable.                           *)
(***************************************************************************)
\* aug_defvar: with expr NULL the variable is removed; otherwise it is bound
\* to the expression and the number of nodes it evaluates to is returned.
NativeDefvar(t, vs, name, expr) ==
  LET e == Eval(t, vs, expr[1])
  IN IF expr = NullPtr
       THEN [ret |-> 0, code |-> AUG_NOERROR,
             bindings |-> [vs EXCEPT ![name] = Unbound]]
     ELSE IF e.code # AUG_NOERROR
       THEN [ret |-> -1, code |-> e.code, bindings |-> vs]
     ELSE [ret |-> Len(e.nodes), code |-> AUG_NOERROR,
           bindings |-> [vs EXCEPT ![name] = <<e.nodes>>]]

\* GoDefvarExpr without the test for the empty string: the empty text is
\* passed on as an expression.
GoDefvarExprAlways(expression) == CString(expression)

\* The expression argument DefineVariable passes to aug_defvar.
GoDefvarExpr(expression) ==
  IF expression # EmptyText THEN CString(expression) ELSE NullPtr

\* was is the binding the name had before the call.
DefineVariableReturns(op, name, expression, nat) ==
  /\ bindings' = nat.bindings
  /\ nerr' = NativeErr(nat.code)
  /\ res' = [op |-> op, name |-> name, expression |-> expression,
             was |-> bindings[name],
             num |-> GoCount(nat.ret, NativeErr(nat.code)).num,
             err |-> GoCount(nat.ret, NativeErr(nat.code)).err, ub |-> "no"]

DefineVariable(name, expression) ==
  /\ handle = "live"
  /\ DefineVariableReturns("DefineVariable", name, expression,
        NativeDefvar(tree, bindings, name, GoDefvarExpr(expression)))
  /\ UNCHANGED <<handle, tree>>

\* RemoveVariable is DefineVariable(name, "") with the count dropped.
RemoveVariable(name) ==
  /\ handle = "live"
  /\ DefineVariableReturns("RemoveVariable", name, EmptyText,
        NativeDefvar(tree, bindings, name, GoDefvarExpr(EmptyText)))
  /\ UNCHANGED <<handle, tree>>

(***************************************************************************)
(* augeas.go: Save.  aug_save returns 0, or -1 with the error recorded.    *)
(***************************************************************************)
Save(ok) ==
  /\ handle = "live"
  /\ LET code == IF ok THEN AUG_NOERROR ELSE AUG_EMXFM
     IN /\ nerr' = NativeErr(code)
        /\ res' = [op |-> "Save",
                   err |-> GoStatus(IF ok THEN 0 ELSE -1, NativeErr(code)),
                   ub |-> "no"]
  /\ UNCHANGED <<handle, tree, bindings>>

(***************************************************************************)
(* The specifications: one session, from before New on.  Init is the state *)
(* before New.  Spec drives the queries over the trees that Set, Insert    *)
(* and Remove build; SpecEdit the bulk edits; SpecVars the variables;      *)
(* SpecLife every flag word of New, Close, and calls on a session that has *)
(* no handle or a freed one.                                               *)
(***************************************************************************)
\* The most native gets of one GetAll that the model lets fail.
MaxFail == 2

InitFailCodes == {AUG_ENOMEM, AUG_ESYNTAX}
QueryPaths == {PA, PA2, PALast, PB, PAB, PStar, BadPath}
SetPaths == {PA, PB, PAB, BadPath}
RemovePaths == {PA1, PAB, PStar, BadPath}
VarExprs == {EmptyText, PA, PB, BadPath}
VarPaths == {PXB, PYB, PAB}
Moves == {<<PA, PB>>, <<PAB, PB>>, <<PA, PAB>>, <<BadPath, PB>>}
\* The option sets New is called with where the flags are not the subject.
PlainOptions == {{}, {"EnableSpan", "NoErrClose"}}

Init ==
  /\ handle = "none"
  /\ tree = <<>>
  /\ bindings = [n \in VarNames |-> Unbound]
  /\ nerr = NativeErr(AUG_NOERROR)
  /\ res = [op |-> "none", ub |-> "no"]

Next ==
  \/ \E S \in PlainOptions, ok \in BOOLEAN :
       New(S, TRUE, ok, AUG_ESYNTAX, "crash")
  \/ ReadError
  \/ \E p \in QueryPaths, oom \in BOOLEAN : Get(p, oom)
  \/ \E p \in QueryPaths, oom \in BOOLEAN : Label(p, oom)
  \/ \E oom \in BOOLEAN : Version(oom)
  \/ \E p \in QueryPaths : Match(p)
  \/ \E p \in QueryPaths, failAt \in 0..MaxFail : GetAll(p, failAt)
  \/ \E p \in SetPaths, v \in Vals : Set(p, v)
  \/ \E before \in BOOLEAN : Insert(PA, "a", before)
  \/ \E p \in RemovePaths : Remove(p)
  \/ \E ok \in BOOLEAN : Save(ok)

Spec == Init /\ [][Next]_vars

NextEdit ==
  \/ New({}, TRUE, TRUE, AUG_ESYNTAX, "crash")
  \/ \E p \in SetPaths, v \in Vals : Set(p, v)
  \/ \E before \in BOOLEAN : Insert(PA, "a", before)
  \/ \E base \in {PA, PStar, BadPath}, sub \in {EmptyText, SubB}, v \in Vals :
       SetMultiple(base, sub, v)
  \/ \E m \in Moves : Move(m[1], m[2])
  \/ \E p \in {PAB, PB} : Get(p, FALSE)

SpecEdit == Init /\ [][NextEdit]_vars

NextVars ==
  \/ New({}, TRUE, TRUE, AUG_ESYNTAX, "crash")
  \/ \E p \in {PA, PAB}, v \in Vals : Set(p, v)
  \/ \E n \in VarNames, e \in VarExprs : DefineVariable(n, e)
  \/ \E n \in VarNames : RemoveVariable(n)
  \/ \E p \in VarPaths : Get(p, FALSE)

SpecVars == Init /\ [][NextVars]_vars

NextLife ==
  \/ \E S \in SUBSET Options, withNone \in BOOLEAN, ok \in BOOLEAN,
        code \in InitFailCodes, outcome \in UBOutcomes :
       New(S, withNone, ok, code, outcome)
  \/ Close
  \/ \E op \in OpNames, outcome \in UBOutcomes : UseInvalid(op, outcome)
  \/ ReadError
  \/ \E p \in {VersionPath, PA}, oom \in BOOLEAN : Get(p, oom)

SpecLife == Init /\ [][NextLife]_vars

(***************************************************************************)
(* The claims.                                                             *)
(***************************************************************************)
\* The calls whose result holds an error value.
ErrOps ==
  {"New", "error", "Get", "Label", "Match", "GetAll", "Set", "Insert",
   "SetMultiple", "Move", "DefineVariable", "RemoveVariable", "Save"}

Failed(r) == r.op \in ErrOps /\ r.ub = "no" /\ r.err # Nil
CodeOf(r) == r.err[1].Code

\* C1: once Close has been called, every later operation on the session
\* (a second Close included) fails with a defined error and does not reach
\* the released native handle, and the session never leaves the closed
\* state.
C1_ClosedSessionRejectsCalls ==
  /\ handle = "freed" => res.ub = "no"
  /\ handle = "freed" /\ res.op # "Close" => Failed(res)

\* C2: Get and Label have exactly three outcome classes.  A path that
\* matches exactly one node yields that node's value (label) and a nil
\* error; a well-formed path that matches no node yields an error whose Code
\* is NoMatch; a malformed path, or one with several matches, yields a
\* non-nil error whose Code is not NoMatch but the native invalid-path
\* or too-many-matches code.  A native call that fails for want of memory
\* yields a non-nil error that is not NoMatch either.  No call panics.
C2_Field(n) == IF res.op = "Get" THEN n.value ELSE n.label

C2_GetOutcomeClasses ==
  res.op \in {"Get", "Label"} /\ res.ub = "no" =>
    LET e == Eval(tree, bindings, res.path)
    IN /\ ~res.panic
       /\ res.oom => res.err # Nil /\ CodeOf(res) = AUG_ENOMEM
                       /\ CodeOf(res) # NoMatch
       /\ ~res.oom /\ e.code = AUG_NOERROR /\ Len(e.nodes) = 1 =>
            /\ res.err = Nil
            /\ res.value = GoString(C2_Field(NodeAt(tree, e.nodes[1])))
       /\ ~res.oom /\ e.code = AUG_NOERROR /\ Len(e.nodes) = 0 =>
            res.err # Nil /\ CodeOf(res) = NoMatch
       /\ ~res.oom /\ e.code = AUG_NOERROR /\ Len(e.nodes) > 1 =>
            res.err # Nil /\ CodeOf(res) = AUG_EMMATCH /\ CodeOf(res) # NoMatch
       /\ ~res.oom /\ e.code # AUG_NOERROR =>
            res.err # Nil /\ CodeOf(res) = AUG_EPATHX /\ CodeOf(res) # NoMatch

\* A Get of a path that matches two nodes has returned.
C2_Witness ==
  /\ res.op = "Get" /\ ~res.oom
  /\ Len(Eval(tree, bindings, res.path).nodes) = 2
  /\ res.err # Nil

\* C3: SetMultiple(base, sub, value) assigns value, for every node matching
\* base, to the node sub names below it, found or created; only with an
\* empty sub are the nodes matching base themselves assigned, and the count
\* returned is the number of nodes modified.  With a sub that is not empty
\* the nodes matching base keep their values.
C3_Expected(t, vs, r) ==
  NativeSetm(t, vs, r.base,
             IF r.sub = EmptyText THEN NullPtr ELSE CString(r.sub), r.value)

C3_SetMultipleAssignsSubNodes ==
  [][res'.op = "SetMultiple" /\ res' # res =>
       /\ tree' = C3_Expected(tree, bindings, res').tree
       /\ res'.err = Nil => res'.num = C3_Expected(tree, bindings, res').ret]_vars

\* C4: the named error codes are pairwise distinct, the binding's own
\* negative, NoError zero and those of Augeas positive, so that a returned
\* Code equals EMVDESC exactly when a move into a descendant failed.
GoCodes ==
  <<CouldNotInitialize, NoMatch, NoError, ENOMEM, EINTERNAL, EPATHX, ENOMATCH,
    EMMATCH, ESYNTAX, ENOLENS, EMXFM, ENOSPAN, EMVDESC, ECMDRUN, EBADARG>>

C4_Distinct ==
  /\ \A i, j \in 1..Len(GoCodes) : i # j => GoCodes[i] # GoCodes[j]
  /\ CouldNotInitialize < 0 /\ NoMatch < 0 /\ NoError = 0
  /\ \A i \in 4..Len(GoCodes) : GoCodes[i] > 0

C4_CodeIdentifiesKind ==
  res.op = "Move" /\ res.err # Nil =>
    /\ C4_Distinct
    /\ CodeOf(res) = EMVDESC <=> res.intoDescendant

\* C5: every operation reports a failed native call as an error.  Remove
\* returns a count that is never negative and reports a failed removal as
\* an error; Version does not return an empty string for a failed read of
\* the version node.
C5_FailuresAreReported ==
  /\ res.op = "Remove" => res.num >= 0 /\ ~res.failed
  /\ res.op = "Version" => ~(res.failed /\ res.value = "")

\* C6: the options are independent bit flags and None is the empty option
\* set.  The flag word New passes to aug_init has exactly the bits of the
\* options the caller named and no others, whether or not the caller or'ed
\* None into it; None | f = f for every option flag f; the nine option
\* flags are distinct single bits.
C6_SingleBits ==
  /\ \A o \in Options : \E n \in 0..15 : GoFlag(o) = Pow2(n)
  /\ \A o1, o2 \in Options : o1 # o2 => GoFlag(o1) # GoFlag(o2)

C6_FlagWordIsTheOptionSet ==
  res.op = "New" =>
    /\ C6_SingleBits
    /\ \A o \in Options : BitOr(None, GoFlag(o)) = GoFlag(o)
    /\ res.word = OrAll(res.S, 0)
    /\ NativeEnabled(res.word) = res.S

\* C7: New returns a usable session or an initialization failure.  Without
\* NoErrClose among the flags New returns an error with Code
\* CouldNotInitialize exactly when aug_init produced no handle, and
\* otherwise a session and a nil error.  With NoErrClose among the flags
\* New returns a session that holds a handle, and the error state of that
\* session, nil exactly when no error is recorded.
C7_NewOutcomes ==
  res.op = "New" =>
    /\ res.ub = "no"
    /\ "NoErrClose" \notin res.S =>
         /\ res.native = "nil" <=>
              (res.err # Nil /\ CodeOf(res) = CouldNotInitialize)
         /\ res.native # "nil" => res.err = Nil /\ handle = res.native
    /\ "NoErrClose" \in res.S =>
         /\ handle \in {"live", "failed"}
         /\ res.err = Nil <=> nerr.code = AUG_NOERROR

\* C8: DefineVariable(name, "") and RemoveVariable(name) both remove the
\* binding of name, return a nil error and leave the same session state:
\* the tree and the other variables are unchanged, no error is recorded, and
\* a path through $name no longer evaluates.  DefineVariable(name, e) with
\* a well-formed e that is not empty replaces the binding of name by the
\* nodes e matches and returns their number; with a malformed e it returns
\* an error and leaves the binding as it was.
C8_IsRemoval(r) ==
  r.op = "RemoveVariable" \/ (r.op = "DefineVariable" /\ r.expression = EmptyText)

C8_AfterCall ==
  /\ C8_IsRemoval(res) =>
       /\ bindings[res.name] = Unbound
       /\ res.err = Nil
       /\ nerr = NativeErr(AUG_NOERROR)
       /\ Eval(tree, bindings, Path(res.name, <<Seg("b", 0)>>)).code = AUG_EPATHX
  /\ res.op = "DefineVariable" /\ res.expression # EmptyText =>
       LET e == Eval(tree, bindings, res.expression)
       IN /\ e.code = AUG_NOERROR =>
               /\ res.err = Nil
               /\ bindings[res.name] = <<e.nodes>>
               /\ res.num = Len(e.nodes)
          /\ e.code # AUG_NOERROR =>
               res.err # Nil /\ bindings[res.name] = res.was

C8_Frame ==
  C8_IsRemoval(res') =>
    /\ tree' = tree
    /\ handle' = handle
    /\ bindings' = [bindings EXCEPT ![res'.name] = Unbound]
    /\ res'.was = bindings[res'.name]

C8_VariableRemoval == [](C8_AfterCall) /\ [][C8_Frame]_vars

\* A variable that was bound has been removed by RemoveVariable.
C8_Witness == res.op = "RemoveVariable" /\ res.was # Unbound

\* C9: GetAll matches the path and then gets each matched path in match
\* order.  A failed match gives no values and the match's error.  When
\* every get succeeds there is one value per matched path, in match order,
\* and a nil error.  When a get fails, it is the last get made, and the
\* error is returned with the values of the paths before it only.
C9_ValueOf(p) ==
  GoString(NodeAt(tree, Eval(tree, bindings, p).nodes[1]).value)

C9_GetAllStopsAtFirstFailure ==
  res.op = "GetAll" =>
    LET e == Eval(tree, bindings, res.path)
        n == Len(res.matches)
        failing == res.failAt \in 1..n
    IN /\ e.code # AUG_NOERROR =>
            /\ res.matchErr # Nil /\ res.err = res.matchErr
            /\ res.values = <<>> /\ res.gets = 0
       /\ e.code = AUG_NOERROR =>
            /\ res.matchErr = Nil
            /\ n = Len(e.nodes)
            /\ \A k \in 1..n : res.matches[k] = PathOf(tree, e.nodes[k])
            /\ ~failing =>
                 /\ res.err = Nil /\ res.gets = n
                 /\ res.values = [k \in 1..n |-> C9_ValueOf(res.matches[k])]
            /\ failing =>
                 /\ res.err # Nil /\ res.gets = res.failAt
                 /\ res.values =
                      [k \in 1..(res.failAt - 1) |-> C9_ValueOf(res.matches[k])]

\* The second get of a GetAll has failed and the first value is returned.
C9_Witness ==
  res.op = "GetAll" /\ res.failAt = 2 /\ res.err # Nil /\ Len(res.values) = 1

\* C10: reading the error state changes nothing.  Two reads in a row on a
\* session that holds a handle return the same code, message, elaboration
\* and details; a read leaves the handle, the tree, the variables and the
\* error state as they were; and the error a failed operation returns that
\* comes from Augeas carries the code, message, elaboration and details the
\* operation recorded.
C10_SameAsBefore == res.op = "error" /\ res.prev # <<>> => res.prev[1] = res.err

C10_Carried ==
  Failed(res) /\ CodeOf(res) > 0 =>
    res.err = Error(nerr.code, nerr.message, nerr.minor, nerr.details)

C10_ReadFrame ==
  res'.op = "error" => UNCHANGED <<handle, tree, bindings, nerr>>

====
